---------------------------- MODULE Spec2Model ----------------------------
(***************************************************************************)
(* The cached read endpoints and the mutation endpoints of the vehicle and *)
(* section controllers (src/modules/vehicle/vehicle.controller.ts and      *)
(* src/modules/section/section.controller.ts).                             *)
(*                                                                         *)
(* A request occupies a slot and moves through the suspension points of    *)
(* its handler: the role guard and the first (synchronous) part of the     *)
(* handler (Begin), the cache round trip of redis.get (CacheGet), the      *)
(* service call (ServiceRead, ServiceMutate), the cache round trip of      *)
(* redis.set (CacheSet).                                                   *)
(* Requests in different slots interleave at these points.  The services   *)
(* and the roles guard are not part of the two controller files; they are  *)
(* modelled from the specification and from the controllers' own           *)
(* annotations (@Roles, @ApiResponse).                                     *)
(***************************************************************************)
EXTENDS Integers, Sequences, FiniteSets, TLC

VARIABLES
    now,        \* wall clock, in seconds
    vehicles,   \* record store: vehicle id -> plate, or Absent
    sections,   \* record store: section id -> [name, privilegedTo], or Absent
    nextId,     \* record store: the next auto-increment id of each resource
    cache,      \* redis: key -> [val, exp, by], or NoEntry
    req,        \* the requests in flight: slot -> request
    patched     \* history: vehicle id -> the plate update made over a cached entry

vars == <<now, vehicles, sections, nextId, cache, req, patched>>

---------------------------------------------------------------------------
(* Bounds of the model *)

MaxReq == 2          \* request slots (requests in flight at once)
MaxTicks == 2        \* the clock stops after this many steps
MaxId == 2           \* ids the stores hand out

Slots == 1..MaxReq
Ids == 1..MaxId

None == "none"
Absent == "absent"

Users == {"admin", "guard", "resident"}
Role(user) ==
    CASE user = "admin" -> "ADMIN"
      [] user = "guard" -> "SECURITY"
      [] OTHER -> "RESIDENT"

Plates == {"A", "B"}
Names == {"N", "M"}
\* Values of the Cache-Control request header; None is "header not sent".
CacheOptions == {None, "no-cache", "max-age=0"}

---------------------------------------------------------------------------
(* The controllers' pure parts *)

\* VehicleRoles with create left to SECURITY alone.
VehicleRolesSecurityCreate(act) ==
    CASE act = "getAll"  -> {"ADMIN", "SECURITY"}
      [] act = "getById" -> {"ADMIN", "SECURITY"}
      [] act = "create"  -> {"SECURITY"}
      [] act = "update"  -> {"ADMIN"}
      [] act = "delete"  -> {"ADMIN"}
      [] OTHER -> {}

\* @Roles(...) of each VehicleController handler.
VehicleRoles(act) ==
    CASE act = "getAll"  -> {"ADMIN", "SECURITY"}
      [] act = "getById" -> {"ADMIN", "SECURITY"}
      [] act = "create"  -> {"ADMIN", "SECURITY"}
      [] act = "update"  -> {"ADMIN"}
      [] act = "delete"  -> {"ADMIN"}
      [] OTHER -> {}

\* SectionRoles with create opened to SECURITY, as on the vehicle controller.
SectionRolesOpenCreate(act) ==
    CASE act = "getAll"  -> {"ADMIN", "SECURITY"}
      [] act = "getById" -> {"ADMIN", "SECURITY"}
      [] act = "getReservedSlots" -> {"ADMIN", "SECURITY"}
      [] act = "create"  -> {"ADMIN", "SECURITY"}
      [] act = "update"  -> {"ADMIN"}
      [] act = "delete"  -> {"ADMIN"}
      [] act = "report"  -> {"ADMIN", "SECURITY"}
      [] OTHER -> {}

\* @Roles(...) of each SectionController handler.
SectionRoles(act) ==
    CASE act = "getAll"  -> {"ADMIN", "SECURITY"}
      [] act = "getById" -> {"ADMIN", "SECURITY"}
      [] act = "getReservedSlots" -> {"ADMIN", "SECURITY"}
      [] act = "create"  -> {"ADMIN"}
      [] act = "update"  -> {"ADMIN"}
      [] act = "delete"  -> {"ADMIN"}
      [] act = "report"  -> {"ADMIN", "SECURITY"}
      [] OTHER -> {}

RolesOf(res, act) == IF res = "vehicles" THEN VehicleRoles(act) ELSE SectionRoles(act)

\* RolesGuard.canActivate: the caller's role is one of the handler's @Roles.
RolesGuard(user, res, act) == Role(user) \in RolesOf(res, act)

\* The text of a template literal, as a sequence of pieces: a literal word
\* ("vehicles", "sections"), the separator ":", a sign, a decimal digit.
DigitText == <<"0", "1", "2", "3", "4", "5", "6", "7", "8", "9">>
RECURSIVE Digits(_)
Digits(n) ==
    IF n < 10 THEN <<DigitText[n + 1]>>
    ELSE Digits(n \div 10) \o <<DigitText[(n % 10) + 1]>>
\* `${n}` of an integer n (ParseIntPipe hands the handlers integers).
NumberText(n) == IF n < 0 THEN <<"-">> \o Digits(-n) ELSE Digits(n)

\* The vehicle list key without the separator between page and limit.
VehicleListKeyUnseparated(page, limit) ==
    <<"vehicles", ":">> \o NumberText(page) \o NumberText(limit)

\* `vehicles:${page}:${limit}`
VehicleListKey(page, limit) ==
    <<"vehicles", ":">> \o NumberText(page) \o <<":">> \o NumberText(limit)
\* `vehicles:${id}`
VehicleIdKey(id) == <<"vehicles", ":">> \o NumberText(id)
\* `sections`
SectionListKey == <<"sections">>
\* `sections:${id}`
SectionIdKey(id) == <<"sections", ":">> \o NumberText(id)

\* CacheEligible without the comparison with "no-cache": if (cacheOption)
CacheEligibleAnyHeader(cacheOption) == cacheOption # None

\* if (cacheOption && cacheOption !== "no-cache")
CacheEligible(cacheOption) == cacheOption # None /\ cacheOption # "no-cache"

\* An expiry of an hour.
TTLHour == 60 * 60

\* "EX", 60 * 10
TTL == 60 * 10

\* The clock advances in steps of half the time to live.
TickStep == TTL \div 2
MaxTime == MaxTicks * TickStep

\* JSON.stringify / JSON.parse: the bytes of a value, and the value of bytes.
\* Bytes that are not JSON text do not parse (JSON.parse throws SyntaxError).
Stringify(v) == <<"json", v>>
Parses(bytes) == Len(bytes) = 2 /\ bytes[1] = "json"
Parse(bytes) == bytes[2]
Garbage == <<"garbage">>

---------------------------------------------------------------------------
(* Values *)

\* What a handler returns: one record, a list of records, or nothing.
NoVal == [shape |-> "none", items |-> <<>>]
One(r) == [shape |-> "one", items |-> <<r>>]
Many(rs) == [shape |-> "many", items |-> rs]

\* A service call's outcome: the value, or the HTTP exception thrown.
Ok(v) == [out |-> "ok", val |-> v]
Err(e) == [out |-> e, val |-> NoVal]

\* A redis key without a value, and a value with its expiry time.  `by` and
\* `at` are not stored by redis: they remember the request whose set wrote the
\* entry and the time of that set.
NoEntry == [kind |-> "none"]
Entry(bytes, exp, q) ==
    [kind |-> "entry", val |-> bytes, exp |-> exp, by |-> q, at |-> now]
NoBy == [res |-> None]

\* redis.get: the bytes under the key if an unexpired entry is there.
Live(k) == k \in DOMAIN cache /\ cache[k].kind = "entry" /\ now < cache[k].exp

\* The ids of a set in increasing order.
RECURSIVE Sorted(_)
Sorted(S) ==
    IF S = {} THEN <<>>
    ELSE LET m == CHOOSE x \in S : \A y \in S : x <= y
         IN <<m>> \o Sorted(S \ {m})

---------------------------------------------------------------------------
(* The services (Resource Access Service, one per resource) *)

VehicleRecord(id) == [id |-> id, plate |-> vehicles[id]]
SectionRecord(id) == [id |-> id, name |-> sections[id].name]
SectionExists(id) == id \in Ids /\ sections[id].name # Absent
NoSection == [name |-> Absent, privilegedTo |-> {}]

\* vehicleService.getAll(user, plate, page, limit): the page of the vehicles
\* matching the plate filter, in id order.
vehicleService_getAll(user, plate, page, limit) ==
    LET match == {i \in Ids : vehicles[i] # Absent /\ (plate = None \/ vehicles[i] = plate)}
        all == Sorted(match)
        from == (page - 1) * limit + 1
        to == IF page * limit < Len(all) THEN page * limit ELSE Len(all)
    IN Ok(Many([i \in 1..(IF to >= from THEN to - from + 1 ELSE 0) |->
                    VehicleRecord(all[from + i - 1])]))

\* vehicleService.getById(user, id)
vehicleService_getById(user, id) ==
    IF id \notin Ids \/ vehicles[id] = Absent THEN Err("NotFound") ELSE Ok(One(VehicleRecord(id)))

\* The sections a caller may view: all of them for ADMIN, else those whose
\* privileged list names the caller.
MayView(user, id) == Role(user) = "ADMIN" \/ user \in sections[id].privilegedTo

\* sectionService.getAll(user)
sectionService_getAll(user) ==
    LET visible == {i \in Ids : SectionExists(i) /\ MayView(user, i)}
        all == Sorted(visible)
    IN IF Role(user) # "ADMIN" /\ visible = {} THEN Err("Forbidden")
       ELSE Ok(Many([i \in 1..Len(all) |-> SectionRecord(all[i])]))

\* sectionService.getById(user, id)
sectionService_getById(user, id) ==
    IF ~SectionExists(id) THEN Err("NotFound")
    ELSE IF ~MayView(user, id) THEN Err("Forbidden")
    ELSE Ok(One(SectionRecord(id)))

\* sectionService.getReservedSlots(user, id) and sectionService.report(user,
\* id, from, to): derived, read-only views of a section the caller may view.
sectionService_view(user, id) ==
    IF ~SectionExists(id) THEN Err("NotFound")
    ELSE IF ~MayView(user, id) THEN Err("Forbidden")
    ELSE Ok(One([id |-> id, view |-> "derived"]))

\* A mutation's outcome and the stores after it.
Stores(r, v, s, n) == [out |-> r.out, val |-> r.val, vehicles |-> v, sections |-> s, nextId |-> n]
Unchanged(r) == Stores(r, vehicles, sections, nextId)

\* vehicleService.create(body): the plate is unique.
vehicleService_create(body) ==
    IF \E i \in Ids : vehicles[i] = body.plate THEN Unchanged(Err("Conflict"))
    ELSE LET id == nextId.vehicles
         IN Stores(Ok(One([id |-> id, plate |-> body.plate])),
                   [vehicles EXCEPT ![id] = body.plate], sections,
                   [nextId EXCEPT !.vehicles = id + 1])

\* vehicleService.update(id, plate)
vehicleService_update(id, plate) ==
    IF vehicles[id] = Absent THEN Unchanged(Err("NotFound"))
    ELSE IF \E i \in Ids \ {id} : vehicles[i] = plate THEN Unchanged(Err("Conflict"))
    ELSE Stores(Ok(One([id |-> id, plate |-> plate])),
                [vehicles EXCEPT ![id] = plate], sections, nextId)

\* vehicleService.delete(id)
vehicleService_delete(id) ==
    IF vehicles[id] = Absent THEN Unchanged(Err("NotFound"))
    ELSE Stores(Ok(One(VehicleRecord(id))),
                [vehicles EXCEPT ![id] = Absent], sections, nextId)

\* sectionService.create(body): the name is unique.
sectionService_create(body) ==
    IF \E i \in Ids : sections[i].name = body.name THEN Unchanged(Err("Conflict"))
    ELSE LET id == nextId.sections
         IN Stores(Ok(One([id |-> id, name |-> body.name])), vehicles,
                   [sections EXCEPT ![id] = [name |-> body.name, privilegedTo |-> {}]],
                   [nextId EXCEPT !.sections = id + 1])

\* sectionService.update(user, id, body): each field of the body is optional.
sectionService_update(user, id, body) ==
    IF ~SectionExists(id) THEN Unchanged(Err("NotFound"))
    ELSE IF body.name # None /\ \E i \in Ids \ {id} : sections[i].name = body.name
         THEN Unchanged(Err("Conflict"))
    ELSE LET new == [name |-> IF body.name = None THEN sections[id].name ELSE body.name,
                     privilegedTo |-> IF body.setPrivileged THEN body.privilegedTo
                                      ELSE sections[id].privilegedTo]
         IN Stores(Ok(One([id |-> id, name |-> new.name])), vehicles,
                   [sections EXCEPT ![id] = new], nextId)

\* sectionService.delete(id)
sectionService_delete(id) ==
    IF ~SectionExists(id) THEN Unchanged(Err("NotFound"))
    ELSE Stores(Ok(One(SectionRecord(id))), vehicles,
                [sections EXCEPT ![id] = NoSection], nextId)

---------------------------------------------------------------------------
(* Requests *)

NoBody == [plate |-> None, name |-> None, setPrivileged |-> FALSE, privilegedTo |-> {}]
VehicleBody(plate) == [NoBody EXCEPT !.plate = plate]
SectionBody(name, set, priv) ==
    [NoBody EXCEPT !.name = name, !.setPrivileged = set, !.privilegedTo = priv]

\* An inbound request: the route, the authenticated caller, the Cache-Control
\* header, and the route's parameters (0, None or NoBody where it has none).
Request(res, act, user, hdr, id, page, limit, plate, body) ==
    [res |-> res, act |-> act, user |-> user, hdr |-> hdr, id |-> id,
     page |-> page, limit |-> limit, plate |-> plate, body |-> body]
NoRequest == Request(None, None, None, None, 0, 0, 0, None, NoBody)

IsCachedRead(q) == q.act \in {"getAll", "getById"}
IsRead(q) == q.act \in {"getAll", "getById", "getReservedSlots", "report"}

\* const key = ... of the four cached read handlers.
KeyOf(q) ==
    CASE q.res = "vehicles" /\ q.act = "getAll"  -> VehicleListKey(q.page, q.limit)
      [] q.res = "vehicles" /\ q.act = "getById" -> VehicleIdKey(q.id)
      [] q.res = "sections" /\ q.act = "getAll"  -> SectionListKey
      [] q.res = "sections" /\ q.act = "getById" -> SectionIdKey(q.id)

\* The service call of a read handler.
ReadResult(q) ==
    CASE q.res = "vehicles" /\ q.act = "getAll" ->
            vehicleService_getAll(q.user, q.plate, q.page, q.limit)
      [] q.res = "vehicles" /\ q.act = "getById" -> vehicleService_getById(q.user, q.id)
      [] q.res = "sections" /\ q.act = "getAll" -> sectionService_getAll(q.user)
      [] q.res = "sections" /\ q.act = "getById" -> sectionService_getById(q.user, q.id)
      [] OTHER -> sectionService_view(q.user, q.id)

\* The service call of a mutation handler.
MutationResult(q) ==
    CASE q.res = "vehicles" /\ q.act = "create" -> vehicleService_create(q.body)
      [] q.res = "vehicles" /\ q.act = "update" -> vehicleService_update(q.id, q.plate)
      [] q.res = "vehicles" /\ q.act = "delete" -> vehicleService_delete(q.id)
      [] q.res = "sections" /\ q.act = "create" -> sectionService_create(q.body)
      [] q.res = "sections" /\ q.act = "update" -> sectionService_update(q.user, q.id, q.body)
      [] OTHER -> sectionService_delete(q.id)

---------------------------------------------------------------------------
(* The requests the model sends *)

MaxPage == 2
MaxLimit == 2
Pages == 1..MaxPage
Limits == 1..MaxLimit
Filters == {None, "A"}

VehicleReads ==
    {Request("vehicles", "getAll", u, h, 0, p, l, f, NoBody) :
        u \in Users, h \in CacheOptions, p \in Pages, l \in Limits, f \in Filters}
    \cup {Request("vehicles", "getById", u, h, i, 0, 0, None, NoBody) :
        u \in Users, h \in CacheOptions, i \in Ids}

VehicleMutations ==
    {Request("vehicles", "create", u, None, 0, 0, 0, None, VehicleBody(p)) :
        u \in Users, p \in Plates}
    \cup {Request("vehicles", "update", u, None, i, 0, 0, p, NoBody) :
        u \in Users, i \in Ids, p \in Plates}
    \cup {Request("vehicles", "delete", u, None, i, 0, 0, None, NoBody) :
        u \in Users, i \in Ids}

SectionReads ==
    {Request("sections", a, u, h, 0, 0, 0, None, NoBody) :
        a \in {"getAll"}, u \in Users, h \in CacheOptions}
    \cup {Request("sections", a, u, h, i, 0, 0, None, NoBody) :
        a \in {"getById"}, u \in Users, h \in CacheOptions, i \in Ids}
    \cup {Request("sections", a, u, None, i, 0, 0, None, NoBody) :
        a \in {"getReservedSlots", "report"}, u \in Users, i \in Ids}

SectionMutations ==
    {Request("sections", "create", u, None, 0, 0, 0, None, SectionBody(n, FALSE, {})) :
        u \in Users, n \in Names}
    \cup {Request("sections", "update", u, None, i, 0, 0, None, SectionBody(n, FALSE, {})) :
        u \in Users, i \in Ids, n \in Names}
    \cup {Request("sections", "update", u, None, i, 0, 0, None, SectionBody(None, TRUE, g)) :
        u \in Users, i \in Ids, g \in SUBSET {"guard"}}
    \cup {Request("sections", "delete", u, None, i, 0, 0, None, NoBody) :
        u \in Users, i \in Ids}

Inputs == VehicleReads \cup VehicleMutations \cup SectionReads \cup SectionMutations

\* The requests of each specification below.
\* SpecById: an administrator reads vehicle 1 by id, updates its plate,
\* deletes it.
ByIdInputs ==
    {q \in VehicleReads \cup VehicleMutations :
        q.user = "admin" /\ q.act \in {"getById", "update", "delete"} /\ q.id = 1}
\* Spec: the same requests, overlapping, every read with a Cache-Control header.
RaceInputs == {q \in ByIdInputs : q.act = "getById" => q.hdr # None}
\* SpecList: an administrator lists the vehicles and registers vehicles.
ListInputs ==
    {q \in VehicleReads \cup VehicleMutations :
        /\ q.user = "admin" /\ q.act \in {"getAll", "create"}
        /\ q.act = "getAll" => q.hdr # None /\ <<q.page, q.limit>> # <<MaxPage, MaxLimit>>}
\* SpecSection: an administrator and a security guard read section 1 and the
\* section list; the administrator grants and revokes the guard's privilege
\* and deletes the section.
SectionInputs ==
    {q \in SectionReads \cup SectionMutations :
        /\ q.user \in {"admin", "guard"}
        /\ q.act \in {"getAll", "getById", "update", "delete"}
        /\ q.act = "delete" => q.user = "admin"
        /\ q.act # "getAll" => q.id = 1
        /\ q.hdr \in {None, "max-age=0"}
        /\ q.body.name = None}
\* SpecGate: every caller calls every route, each route with one set of
\* parameters.
GateRequest(res, act, u) ==
    Request(res, act, u,
            IF act \in {"getAll", "getById"} THEN "max-age=0" ELSE None,
            IF act \in {"getAll", "create"} THEN 0 ELSE IF act = "delete" THEN 2 ELSE 1,
            IF res = "vehicles" /\ act = "getAll" THEN 1 ELSE 0,
            IF res = "vehicles" /\ act = "getAll" THEN 1 ELSE 0,
            IF res = "vehicles" /\ act = "update" THEN "A" ELSE None,
            IF res = "vehicles" /\ act = "create" THEN VehicleBody("B")
            ELSE IF res = "sections" /\ act = "create" THEN SectionBody("M", FALSE, {})
            ELSE IF res = "sections" /\ act = "update" THEN SectionBody("N", FALSE, {})
            ELSE NoBody)
\* SpecCreate: an administrator and a security guard create vehicles and
\* sections, with plates and names that are taken and that are free, and read
\* vehicle 1 and section 1 by id.
CreateInputs ==
    {q \in VehicleMutations \cup SectionMutations :
        q.user \in {"admin", "guard"} /\ q.act = "create"}
    \cup {q \in VehicleReads \cup SectionReads :
        q.user = "admin" /\ q.act = "getById" /\ q.id = 1 /\ q.hdr = "max-age=0"}
\* SpecKeys: an administrator reads through all four cached routes, by id also
\* with ids that no record has and whose digits are a page's followed by a
\* limit's.
ProbeIds == {10 * p + l : p \in Pages, l \in Limits}
KeyInputs ==
    {Request("vehicles", "getAll", "admin", "max-age=0", 0, p, l, None, NoBody) :
        p \in Pages, l \in Limits}
    \cup {Request(r, "getById", "admin", "max-age=0", i, 0, 0, None, NoBody) :
        r \in {"vehicles", "sections"}, i \in {1} \cup ProbeIds}
    \cup {Request("sections", "getAll", "admin", "max-age=0", 0, 0, 0, None, NoBody)}
VehicleActs == {"getAll", "getById", "create", "update", "delete"}
SectionActs == {"getAll", "getById", "getReservedSlots", "create", "update", "delete", "report"}
GateInputs ==
    {GateRequest("vehicles", a, u) : a \in VehicleActs, u \in Users}
    \cup {GateRequest("sections", a, u) : a \in SectionActs, u \in Users}

\* The keys a set can write: those of the lists and of the ids the stores hand
\* out (a by-id read of any other id ends in not-found and sets nothing).
Keys ==
    {VehicleListKey(p, l) : p \in Pages, l \in Limits}
    \cup {VehicleIdKey(i) : i \in Ids}
    \cup {SectionListKey}
    \cup {SectionIdKey(i) : i \in Ids}

---------------------------------------------------------------------------
(* State *)

\* A slot: where its request's handler is, the request, and what it returned.
\* src tells whether the returned value came from the cache or the service.
Slot(pc, q, out, val, src) == [pc |-> pc, q |-> q, out |-> out, val |-> val, src |-> src]
Idle == Slot("idle", NoRequest, None, NoVal, None)

\* History of a vehicle's last plate update, kept while nothing else mutates the
\* vehicle: the update found the vehicle's entry cached, unexpired and holding
\* the plate `old` the store held, and changed the plate to `new`.  exp is that
\* entry's expiry time; same tells that no set has re-written the entry since;
\* first tells that no cache get has looked for the entry after its expiry yet;
\* fresh tells that a set has written the plate `new` under the key since.
NoPatch ==
    [on |-> FALSE, old |-> None, new |-> None, exp |-> 0, same |-> FALSE,
     first |-> FALSE, fresh |-> FALSE]
Patch(old, new, exp) ==
    [on |-> TRUE, old |-> old, new |-> new, exp |-> exp, same |-> TRUE,
     first |-> TRUE, fresh |-> FALSE]

\* patched after the set of the value val by the by-id read q of a vehicle.
PatchedBySet(q, val) ==
    [patched EXCEPT ![q.id].same = FALSE,
                    ![q.id].fresh = @ \/ (patched[q.id].on
                                          /\ val.items[1].plate = patched[q.id].new)]

\* The entry under the vehicle's key holds the plate the store holds.
Fresh(id) ==
    LET k == VehicleIdKey(id)
    IN /\ Live(k)
       /\ Parses(cache[k].val)
       /\ Parse(cache[k].val) = One(VehicleRecord(id))

\* patched after the mutation q with outcome r.
PatchedAfter(q, r) ==
    IF q.res # "vehicles" \/ q.act = "create" \/ r.out # "ok" THEN patched
    ELSE IF q.act = "update" /\ q.plate = vehicles[q.id] THEN patched
    ELSE IF q.act = "update" /\ Fresh(q.id)
        THEN [patched EXCEPT ![q.id] =
                 Patch(vehicles[q.id], q.plate, cache[VehicleIdKey(q.id)].exp)]
    ELSE [patched EXCEPT ![q.id] = NoPatch]

IsVehicleById(q) == q.res = "vehicles" /\ q.act = "getById"
\* A by-id read of a vehicle id whose history is kept.
HasHistory(q) == IsVehicleById(q) /\ q.id \in Ids

Init ==
    /\ now = 0
    /\ vehicles = [i \in Ids |-> IF i = 1 THEN "A" ELSE Absent]
    /\ sections = [i \in Ids |-> IF i = 1 THEN [name |-> "N", privilegedTo |-> {}]
                                 ELSE NoSection]
    /\ nextId = [vehicles |-> 2, sections |-> 2]
    /\ cache = [k \in Keys |-> NoEntry]
    /\ req = [s \in Slots |-> Idle]
    /\ patched = [i \in Ids |-> NoPatch]

---------------------------------------------------------------------------
(* Actions *)

\* The slots after the request in slot s moves on to r.  A slot keeps its
\* request's response until the next request returns: only the last response
\* is remembered.
Move(s, r) ==
    [t \in Slots |->
        IF t = s THEN r
        ELSE IF r.pc = "done" /\ req[t].pc = "done" THEN Idle
        ELSE req[t]]

\* A create of resource res is in flight in slot t (the stores hand out ids up
\* to MaxId).
Creating(t, res) == req[t].pc = "load" /\ req[t].q.act = "create" /\ req[t].q.res = res

\* The request arrives: the guards run, then the handler up to its first await.
\* It takes the first slot that holds no request in flight.
Begin(s, q) ==
    /\ req[s].pc \in {"idle", "done"}
    /\ \A t \in Slots : t < s => req[t].pc \notin {"idle", "done"}
    /\ q.act = "create" =>
          nextId[q.res] + Cardinality({t \in Slots : Creating(t, q.res)}) <= MaxId
    /\ req' = Move(s,
            IF ~RolesGuard(q.user, q.res, q.act)
                THEN Slot("done", q, "Forbidden", NoVal, None)
            ELSE IF IsCachedRead(q) /\ CacheEligible(q.hdr)
                THEN Slot("get", q, None, NoVal, None)
            ELSE Slot("load", q, None, NoVal, None))
    /\ UNCHANGED <<now, vehicles, sections, nextId, cache, patched>>

\* CacheGet with a hit that renews the entry's time to live (a sliding
\* expiry).
CacheGetRefreshes(s) ==
    /\ req[s].pc = "get"
    /\ LET q == req[s].q
           k == KeyOf(q)
       IN /\ req' = Move(s,
            IF ~Live(k) THEN Slot("load", q, None, NoVal, None)
            ELSE IF Parses(cache[k].val)
                THEN Slot("done", q, "ok", Parse(cache[k].val), "cache")
            ELSE Slot("done", q, "SyntaxError", NoVal, None))
          /\ cache' = IF Live(k) THEN [cache EXCEPT ![k].exp = now + TTL] ELSE cache
          /\ patched' =
                IF HasHistory(q) /\ patched[q.id].on /\ now >= patched[q.id].exp
                    THEN [patched EXCEPT ![q.id].first = FALSE]
                ELSE patched
    /\ UNCHANGED <<now, vehicles, sections, nextId>>

\* await this.redis.get(key) returns; on a hit the handler returns the parsed
\* bytes, on a miss it calls the service.
CacheGet(s) ==
    /\ req[s].pc = "get"
    /\ LET q == req[s].q
           k == KeyOf(q)
       IN /\ req' = Move(s,
            IF ~Live(k) THEN Slot("load", q, None, NoVal, None)
            ELSE IF Parses(cache[k].val)
                THEN Slot("done", q, "ok", Parse(cache[k].val), "cache")
            ELSE Slot("done", q, "SyntaxError", NoVal, None))
          /\ patched' =
                IF HasHistory(q) /\ patched[q.id].on /\ now >= patched[q.id].exp
                    THEN [patched EXCEPT ![q.id].first = FALSE]
                ELSE patched
    /\ UNCHANGED <<now, vehicles, sections, nextId, cache>>

\* ServiceRead with a handler that catches the service's exception and goes on
\* to its cache set with no value.
ServiceReadCachesErrors(s) ==
    /\ req[s].pc = "load"
    /\ IsRead(req[s].q)
    /\ LET q == req[s].q
           r == ReadResult(q)
       IN req' = Move(s,
            IF IsCachedRead(q)
                THEN Slot("set", q, None, r.val, "service")
            ELSE Slot("done", q, r.out, r.val, "service"))
    /\ UNCHANGED <<now, vehicles, sections, nextId, cache, patched>>

\* ServiceRead behind a per-key lock (single flight): the service call waits
\* while another request is loading or storing the same key.
ServiceReadSingleFlight(s) ==
    /\ req[s].pc = "load"
    /\ IsRead(req[s].q)
    /\ \A t \in Slots \ {s} :
            ~(/\ req[t].pc \in {"load", "set"}
              /\ IsCachedRead(req[t].q) /\ IsCachedRead(req[s].q)
              /\ KeyOf(req[t].q) = KeyOf(req[s].q))
    /\ LET q == req[s].q
           r == ReadResult(q)
       IN req' = Move(s,
            IF r.out = "ok" /\ IsCachedRead(q)
                THEN Slot("set", q, None, r.val, "service")
            ELSE Slot("done", q, r.out, r.val, "service"))
    /\ UNCHANGED <<now, vehicles, sections, nextId, cache, patched>>

\* await this.xService.getX(...) of a read handler returns or throws.
ServiceRead(s) ==
    /\ req[s].pc = "load"
    /\ IsRead(req[s].q)
    /\ LET q == req[s].q
           r == ReadResult(q)
       IN req' = Move(s,
            IF r.out = "ok" /\ IsCachedRead(q)
                THEN Slot("set", q, None, r.val, "service")
            ELSE Slot("done", q, r.out, r.val, "service"))
    /\ UNCHANGED <<now, vehicles, sections, nextId, cache, patched>>

\* ServiceMutate with an update handler that also writes the updated record
\* through to the cache.
ServiceMutateWriteThrough(s) ==
    /\ req[s].pc = "load"
    /\ ~IsRead(req[s].q)
    /\ LET q == req[s].q
           r == MutationResult(q)
       IN /\ vehicles' = r.vehicles
          /\ sections' = r.sections
          /\ nextId' = r.nextId
          /\ req' = Move(s, Slot("done", q, r.out, r.val, "service"))
          /\ patched' = PatchedAfter(q, r)
          /\ cache' =
                IF q.res = "vehicles" /\ q.act = "update" /\ r.out = "ok"
                    THEN [cache EXCEPT ![VehicleIdKey(q.id)] =
                             Entry(Stringify(r.val), now + TTL, q)]
                ELSE cache
    /\ UNCHANGED now

\* ServiceMutate with a create handler that also writes the created record to
\* the cache under its by-id key.
ServiceMutateCachesCreated(s) ==
    /\ req[s].pc = "load"
    /\ ~IsRead(req[s].q)
    /\ LET q == req[s].q
           r == MutationResult(q)
       IN /\ vehicles' = r.vehicles
          /\ sections' = r.sections
          /\ nextId' = r.nextId
          /\ req' = Move(s, Slot("done", q, r.out, r.val, "service"))
          /\ patched' = PatchedAfter(q, r)
          /\ cache' =
                IF q.act = "create" /\ r.out = "ok"
                    THEN [cache EXCEPT ![IF q.res = "vehicles"
                                           THEN VehicleIdKey(r.val.items[1].id)
                                           ELSE SectionIdKey(r.val.items[1].id)] =
                             Entry(Stringify(r.val), now + TTL, q)]
                ELSE cache
    /\ UNCHANGED now

\* await this.xService.create/update/delete(...) returns or throws, and the
\* handler returns.
ServiceMutate(s) ==
    /\ req[s].pc = "load"
    /\ ~IsRead(req[s].q)
    /\ LET q == req[s].q
           r == MutationResult(q)
       IN /\ vehicles' = r.vehicles
          /\ sections' = r.sections
          /\ nextId' = r.nextId
          /\ req' = Move(s, Slot("done", q, r.out, r.val, "service"))
          /\ patched' = PatchedAfter(q, r)
    /\ UNCHANGED <<now, cache>>

\* CacheSet with a set that leaves an unexpired entry alone
\* (redis.set(..., "NX")).
CacheSetIfAbsent(s) ==
    /\ req[s].pc = "set"
    /\ LET q == req[s].q
       IN /\ cache' =
                IF Live(KeyOf(q)) THEN cache
                ELSE [cache EXCEPT ![KeyOf(q)] =
                        Entry(Stringify(req[s].val), now + TTL, q)]
          /\ req' = Move(s, Slot("done", q, "ok", req[s].val, "service"))
          /\ patched' =
                IF HasHistory(q) THEN PatchedBySet(q, req[s].val) ELSE patched
    /\ UNCHANGED <<now, vehicles, sections, nextId>>

\* await this.redis.set(key, JSON.stringify(x), "EX", 60 * 10) returns, and the
\* handler returns the service's value.
CacheSet(s) ==
    /\ req[s].pc = "set"
    /\ LET q == req[s].q
       IN /\ cache' = [cache EXCEPT ![KeyOf(q)] =
                          Entry(Stringify(req[s].val), now + TTL, q)]
          /\ req' = Move(s, Slot("done", q, "ok", req[s].val, "service"))
          /\ patched' =
                IF HasHistory(q) THEN PatchedBySet(q, req[s].val) ELSE patched
    /\ UNCHANGED <<now, vehicles, sections, nextId>>

\* Time passes; redis drops the entries whose expiry time is reached.
Tick ==
    /\ now + TickStep <= MaxTime
    /\ now' = now + TickStep
    /\ cache' = [k \in Keys |->
            IF cache[k].kind = "entry" /\ cache[k].exp <= now' THEN NoEntry ELSE cache[k]]
    /\ UNCHANGED <<vehicles, sections, nextId, req, patched>>

\* The cache collaborator fails: redis.get rejects and nothing catches it.
CacheGetFail(s) ==
    /\ req[s].pc = "get"
    /\ req' = Move(s, Slot("done", req[s].q, "RedisError", NoVal, None))
    /\ UNCHANGED <<now, vehicles, sections, nextId, cache, patched>>

\* The cache collaborator fails: redis.set rejects and nothing catches it.
CacheSetFail(s) ==
    /\ req[s].pc = "set"
    /\ req' = Move(s, Slot("done", req[s].q, "RedisError", NoVal, "service"))
    /\ UNCHANGED <<now, vehicles, sections, nextId, cache, patched>>

\* Another writer of the shared redis leaves bytes that are not JSON under a
\* key of the controllers.
Corrupt(k) ==
    /\ cache[k].kind = "entry"
    /\ cache[k].val # Garbage
    /\ cache' = [cache EXCEPT ![k].val = Garbage]
    /\ UNCHANGED <<now, vehicles, sections, nextId, req, patched>>

\* The steps of the requests In sent through the slots S.
Step(S, In) ==
    \/ \E s \in S, q \in In : Begin(s, q)
    \/ \E s \in S : CacheGet(s)
    \/ \E s \in S : ServiceRead(s)
    \/ \E s \in S : ServiceMutate(s)
    \/ \E s \in S : CacheSet(s)

\* One request at a time.
OneSlot == {1}

Next == Step(Slots, RaceInputs) \/ Tick
Spec == Init /\ [][Next]_vars

NextById == Step(OneSlot, ByIdInputs) \/ Tick
SpecById == Init /\ [][NextById]_vars

NextList == Step(OneSlot, ListInputs)
SpecList == Init /\ [][NextList]_vars

NextSection == Step(OneSlot, SectionInputs) \/ Tick
SpecSection == Init /\ [][NextSection]_vars

NextGate == Step(OneSlot, GateInputs)
SpecGate == Init /\ [][NextGate]_vars

NextCreate == Step(OneSlot, CreateInputs)
SpecCreate == Init /\ [][NextCreate]_vars

NextKeys ==
    \/ \E s \in OneSlot, q \in KeyInputs : Begin(s, q)
    \/ \E s \in OneSlot : CacheGet(s)
    \/ \E s \in OneSlot : ServiceRead(s)
    \/ \E s \in OneSlot : CacheSet(s)
SpecKeys == Init /\ [][NextKeys]_vars

\* Spec's requests, one at a time, with a cache collaborator that can fail and
\* a cache that can hold bytes the controllers did not write.
NextFault ==
    \/ Step(OneSlot, ByIdInputs)
    \/ Tick
    \/ \E s \in OneSlot : CacheGetFail(s)
    \/ \E s \in OneSlot : CacheSetFail(s)
    \/ \E k \in Keys : Corrupt(k)
SpecFault == Init /\ [][NextFault]_vars

---------------------------------------------------------------------------
(* Properties *)

\* The roles guard let the request through.
Admitted(q) == RolesGuard(q.user, q.res, q.act)
\* The roles guard rejected the request in slot s (403 before the handler).
GateDenied(s) == req[s].pc = "done" /\ req[s].out = "Forbidden" /\ req[s].src = None

\* In this step the request in slot s gets the bytes of its key from the cache
\* and returns them.
Hit(s) == req[s].pc = "get" /\ req'[s].pc = "done" /\ req'[s].src = "cache"
\* In this step the request in slot s returns to its caller.
Completes(s) == req'[s].pc = "done" /\ req'[s] # req[s]

\* C1: of two requests with the same cache key made one after the other,
\* neither carrying no-cache (a request without the header included), the
\* second, made while the entry the first wrote is unexpired, does not invoke
\* the service and returns the payload the first stored.  As a property of the
\* second request's steps: while such an entry is under its key, a cached read
\* that does not carry no-cache never goes on to the service, and what it
\* returns is the entry's payload.
C1_SecondRequestServedFromCache ==
    [][\A s \in Slots :
        LET q == req'[s].q
            k == KeyOf(q)
        IN (/\ req'[s] # req[s]
            /\ req[s].pc \in {"idle", "done", "get"}
            /\ IsCachedRead(q) /\ Admitted(q)
            /\ q.hdr # "no-cache"
            /\ Live(k) /\ cache[k].by.hdr # "no-cache")
           => /\ req'[s].pc # "load"
              /\ req'[s].pc = "done" =>
                    /\ req'[s].src = "cache"
                    /\ req'[s].val = Parse(cache[k].val)]_vars

\* C2: a vehicle list request served from the cache receives a payload that
\* was computed for its own plate filter, page and limit.
C2_ListHitSameSelector ==
    [][\A s \in Slots :
        LET q == req[s].q
        IN (Hit(s) /\ q.res = "vehicles" /\ q.act = "getAll")
           => LET by == cache[KeyOf(q)].by
              IN by.plate = q.plate /\ by.page = q.page /\ by.limit = q.limit]_vars

\* C3: the section service's results depend on the caller; a payload returned
\* from a cache hit was computed for a caller with the receiving caller's role.
C3_HitSameRole ==
    [][\A s \in Slots :
        LET q == req[s].q
        IN (Hit(s) /\ q.res = "sections")
           => Role(cache[KeyOf(q)].by.user) = Role(q.user)]_vars

\* The per-caller check of sectionService.getById denies the caller of q.
Denied(q) == SectionExists(q.id) /\ ~MayView(q.user, q.id)

\* C4: a get-by-id request of a caller the service's per-caller check denies
\* for that id ends in access-denied and returns no record, whatever the cache
\* holds.  (A request whose cache set is pending was allowed by the check.)
C4_DeniedCallerGetsForbidden ==
    [][\A s \in Slots :
        LET q == req'[s].q
        IN (/\ Completes(s) /\ req[s].pc # "set"
            /\ q.res = "sections" /\ q.act = "getById"
            /\ Denied(q))
           => req'[s].out = "Forbidden" /\ req'[s].val = NoVal]_vars

\* C6: a failure of redis.get or redis.set never fails a read request: no
\* request ends with the cache collaborator's error.
C6_CacheFailureSwallowed ==
    \A s \in Slots : req[s].pc = "done" => req[s].out # "RedisError"

\* C8: a successful update or delete attempts the invalidation of the affected
\* resource's cache entries after the record is persisted and before the
\* request completes: when it completes, the entry under the by-id key of the
\* record it changed, if it was there before, is gone or re-written.
C8_MutationInvalidates ==
    [][\A s \in Slots :
        LET q == req'[s].q
            k == IF q.res = "vehicles" THEN VehicleIdKey(q.id) ELSE SectionIdKey(q.id)
        IN (/\ Completes(s)
            /\ q.act \in {"update", "delete"}
            /\ req'[s].out = "ok"
            /\ cache[k].kind = "entry")
           => cache'[k] # cache[k]]_vars

\* C9: cached bytes that cannot be deserialized are treated as a miss: no
\* request ends with JSON.parse's SyntaxError.
C9_UnparsableIsMiss ==
    \A s \in Slots : req[s].pc = "done" => req[s].out # "SyntaxError"

\* C5: a read request carrying no-cache never reads the cache and always goes
\* to the service; when it returns the service's result, the cache holds that
\* result under the request's key, expiring TTL seconds later; and a
\* cache-eligible request whose cache get finds that entry is served the
\* result from the cache.
C5_NoCacheWritesThrough ==
    [][\A s \in Slots :
        /\ LET q == req'[s].q
           IN (/\ req'[s] # req[s]
               /\ IsCachedRead(q) /\ Admitted(q)
               /\ q.hdr = "no-cache")
              => /\ req'[s].pc # "get"
                 /\ req'[s].src # "cache"
                 /\ req[s].pc \in {"idle", "done"} => req'[s].pc = "load"
                 /\ (req'[s].pc = "done" /\ req'[s].out = "ok") =>
                        /\ cache'[KeyOf(q)] = Entry(Stringify(req'[s].val), now + TTL, q)
                        /\ now' < cache'[KeyOf(q)].exp
        /\ LET q == req[s].q
           IN (/\ req'[s] # req[s]
               /\ req[s].pc = "get"
               /\ Live(KeyOf(q)) /\ cache[KeyOf(q)].by.hdr = "no-cache")
              => /\ Hit(s)
                 /\ req'[s].out = "ok"
                 /\ Stringify(req'[s].val) = cache[KeyOf(q)].val]_vars

\* C5's case: a no-cache request returned the service's result and wrote it
\* under its key, and the cache-eligible request after it, with the same key,
\* was served that result from the entry the no-cache request wrote.
C5_Witness ==
    \E t \in Slots :
        /\ req[t].pc = "done" /\ IsCachedRead(req[t].q)
        /\ CacheEligible(req[t].q.hdr)
        /\ req[t].src = "cache" /\ req[t].out = "ok"
        /\ cache[KeyOf(req[t].q)].kind = "entry"
        /\ cache[KeyOf(req[t].q)].by.hdr = "no-cache"
        /\ KeyOf(cache[KeyOf(req[t].q)].by) = KeyOf(req[t].q)
        /\ Stringify(req[t].val) = cache[KeyOf(req[t].q)].val

\* The plate of a returned vehicle record.
PlateOf(v) == v.items[1].plate

\* C7 as stated: once a PATCH has changed the plate of a vehicle whose entry is
\* cached (holding the plate the store held), every GET served from that entry
\* before its expiry returns the pre-update plate, and the first
\* cache-eligible GET after the expiry returns the updated plate, from the
\* service or from the cache.
C7_StaleThenFresh ==
    [][\A s \in Slots :
        LET q == req[s].q
            p == patched[q.id]
        IN (/\ req'[s] # req[s]
            /\ req[s].pc = "get"
            /\ IsVehicleById(q)
            /\ p.on)
           => /\ (Hit(s) /\ now < p.exp /\ p.same) => PlateOf(req'[s].val) = p.old
              /\ (now >= p.exp /\ p.first) =>
                    IF Hit(s) THEN PlateOf(req'[s].val) = p.new
                    ELSE req'[s].pc = "load" /\ vehicles[q.id] = p.new]_vars

\* C7, amended: once a PATCH has changed the plate of a vehicle whose entry is
\* cached (holding the plate the store held), and until the vehicle is mutated
\* again: every GET served from that entry returns the pre-update plate; the
\* first cache-eligible GET after the entry's expiry finds no entry and goes to
\* the service, provided no request has re-written the entry since the PATCH;
\* and every GET answered by the service returns the updated plate.
C7_StaleThenFreshUnlessRewritten ==
    [][\A s \in Slots :
        LET q == req[s].q
            p == patched[q.id]
        IN (/\ req'[s] # req[s]
            /\ IsVehicleById(q)
            /\ p.on)
           => /\ (Hit(s) /\ now < p.exp /\ p.same) => PlateOf(req'[s].val) = p.old
              /\ (req[s].pc = "get" /\ now >= p.exp /\ p.first /\ p.same) =>
                    req'[s].pc = "load" /\ vehicles[q.id] = p.new
              /\ req[s].pc = "load" =>
                    req'[s].val = One([id |-> q.id, plate |-> p.new])]_vars

\* C7's case: after the PATCH one GET was served the pre-update plate from the
\* entry, and after the entry's expiry the next cache-eligible GET missed and
\* was answered by the service with the updated plate.
C7_Witness ==
    \E s, t \in Slots :
        /\ patched[1].on /\ patched[1].same /\ ~patched[1].first
        /\ now >= patched[1].exp
        /\ req[s].pc = "done" /\ IsVehicleById(req[s].q) /\ req[s].q.id = 1
        /\ req[s].src = "cache" /\ req[s].out = "ok"
        /\ PlateOf(req[s].val) = patched[1].old
        /\ req[t].pc = "set" /\ IsVehicleById(req[t].q) /\ req[t].q.id = 1
        /\ CacheEligible(req[t].q.hdr)
        /\ PlateOf(req[t].val) = patched[1].new

\* C10 as stated: SECURITY is admitted to every read and to create on both
\* resources, and denied update and delete on sections.
C10_SecurityCreatesSections ==
    \A s \in Slots :
        (req[s].pc = "done" /\ Role(req[s].q.user) = "SECURITY")
        => /\ (IsRead(req[s].q) \/ req[s].q.act = "create") => ~GateDenied(s)
           /\ (req[s].q.res = "sections" /\ req[s].q.act \in {"update", "delete"})
                => GateDenied(s)

\* C10, amended: SECURITY is admitted to every read of both resources and to
\* create on vehicles, and denied create, update and delete on sections.
C10_SecurityGate ==
    \A s \in Slots :
        (req[s].pc = "done" /\ Role(req[s].q.user) = "SECURITY")
        => /\ (IsRead(req[s].q) \/ (req[s].q.res = "vehicles" /\ req[s].q.act = "create"))
                => ~GateDenied(s)
           /\ (req[s].q.res = "sections" /\ req[s].q.act \in {"create", "update", "delete"})
                => GateDenied(s)

\* C10's case: the guard's request to create a section was rejected by the
\* roles guard, after the guard had registered a vehicle.
C10_Witness ==
    \E s \in Slots :
        /\ Role(req[s].q.user) = "SECURITY"
        /\ req[s].q.res = "sections" /\ req[s].q.act = "create"
        /\ GateDenied(s)
        /\ vehicles[2] = "B"
        /\ cache[VehicleIdKey(1)].kind = "entry"
        /\ cache[VehicleIdKey(1)].by.user = "guard"

\* C11: an ADMIN caller passes the role gate of every endpoint: no request of
\* an ADMIN, on any route of either controller, is rejected by the roles guard.
C11_AdminPassesGate ==
    \A s \in Slots :
        (req[s].pc = "done" /\ Role(req[s].q.user) = "ADMIN") => ~GateDenied(s)

\* C11's case: the administrator's request to an ADMIN-only route (delete of a
\* section) got past the guard to the service, after the administrator had
\* registered a vehicle and created a section.
C11_Witness ==
    \E s \in Slots :
        /\ req[s].pc = "done" /\ req[s].q.user = "admin"
        /\ req[s].q.res = "sections" /\ req[s].q.act = "delete"
        /\ req[s].src = "service"
        /\ vehicles[2] = "B"
        /\ nextId.sections > 2

\* The plate (vehicle) or name (section) of the create request q is taken.
Duplicate(q) ==
    IF q.res = "vehicles" THEN \E i \in Ids : vehicles[i] = q.body.plate
    ELSE \E i \in Ids : sections[i].name = q.body.name

\* C12: a create request whose plate or name already exists in the store ends
\* in the 409 conflict (AlreadyExists) and leaves the store as it was; no step
\* of a create request reads or writes the cache.
C12_DuplicateCreateConflicts ==
    [][\A s \in Slots :
        LET q == req'[s].q
        IN (req'[s] # req[s] /\ q.act = "create" /\ Admitted(q))
           => /\ req'[s].pc \notin {"get", "set"}
              /\ req'[s].src # "cache"
              /\ cache' = cache
              /\ (req[s].pc = "load" /\ Duplicate(q)) =>
                    /\ req'[s].pc = "done" /\ req'[s].out = "Conflict"
                    /\ req'[s].val = NoVal
                    /\ vehicles' = vehicles /\ sections' = sections
                    /\ nextId' = nextId]_vars

\* C12's case: a request to create a section under a taken name ended in the
\* conflict, with an entry in the cache and after a vehicle had been created.
C12_Witness ==
    \E s \in Slots :
        /\ req[s].pc = "done" /\ req[s].q.act = "create" /\ req[s].q.res = "sections"
        /\ req[s].out = "Conflict"
        /\ \E i \in Ids : sections[i].name = req[s].q.body.name
        /\ cache[SectionIdKey(1)].kind = "entry"
        /\ vehicles[2] = "B"

\* C13: every cache write made by a read endpoint sets the entry's expiry to
\* exactly 600 seconds after the write; an entry is never served 600 seconds
\* or more after the write that produced it; and a cache-eligible read whose
\* cache get finds no entry written less than 600 seconds ago (the entry has
\* expired, or there was none) goes on to invoke the service.
C13_ExpiresAfterSixHundred ==
    [][\A s \in Slots :
        LET q == req[s].q
            k == KeyOf(q)
        IN /\ (req[s].pc = "set" /\ req'[s] # req[s]) =>
                /\ cache'[k].kind = "entry"
                /\ cache'[k].at = now
                /\ cache'[k].exp = now + 600
           /\ Hit(s) =>
                /\ cache[k].kind = "entry"
                /\ now - cache[k].at < 600
           /\ (/\ req[s].pc = "get" /\ req'[s] # req[s]
               /\ ~(cache[k].kind = "entry" /\ now - cache[k].at < 600)) =>
                req'[s].pc = "load"]_vars

\* C13's case: the entry of vehicle 1 was written at time 0 and has expired; a
\* cache get looked for it after its expiry, and a cache-eligible request that
\* found no entry holds the service's result, not yet written; an entry written
\* after the expiry, with its own 600 seconds, is under the key.
C13_Witness ==
    \E s \in Slots :
        /\ patched[1].on /\ ~patched[1].first
        /\ patched[1].exp = 600 /\ now >= 600
        /\ req[s].pc = "set" /\ IsVehicleById(req[s].q)
        /\ CacheEligible(req[s].q.hdr)
        /\ cache[VehicleIdKey(1)].kind = "entry"
        /\ cache[VehicleIdKey(1)].at = now
        /\ cache[VehicleIdKey(1)].exp = now + 600

\* C14: a read served from the cache invokes no service method (it returns in
\* the step of its cache get) and changes nothing: the store, and every cache
\* entry's value and expiry, are the same after the hit as before it.
C14_HitChangesNothing ==
    [][\A s \in Slots :
        Hit(s) =>
            /\ vehicles' = vehicles /\ sections' = sections /\ nextId' = nextId
            /\ cache' = cache
            /\ \A k \in Keys : cache[k].kind = "entry" =>
                    /\ cache'[k].val = cache[k].val
                    /\ cache'[k].exp = cache[k].exp
            /\ req'[s].val = Parse(cache[KeyOf(req[s].q)].val)]_vars

\* C14's case: a request was served from an entry that another request wrote
\* some time before; the entry still expires 600 seconds after it was written.
C14_Witness ==
    \E s \in Slots :
        /\ req[s].pc = "done" /\ req[s].src = "cache" /\ req[s].out = "ok"
        /\ IsVehicleById(req[s].q)
        /\ cache[KeyOf(req[s].q)].kind = "entry"
        /\ cache[KeyOf(req[s].q)].at < now
        /\ cache[KeyOf(req[s].q)].exp = cache[KeyOf(req[s].q)].at + 600
        /\ Stringify(req[s].val) = cache[KeyOf(req[s].q)].val

\* C15: cache sets for the same key are last-write-wins, with no merge and no
\* ordering on load time: a request's cache set leaves under its key the value
\* that request loaded, whatever entry was there and whatever the store holds
\* by then, and leaves every other key alone.
C15_LastWriteWins ==
    [][\A s \in Slots :
        LET q == req[s].q
            k == KeyOf(q)
        IN (req[s].pc = "set" /\ req'[s] # req[s])
           => /\ cache'[k].kind = "entry"
              /\ cache'[k].val = Stringify(req[s].val)
              /\ cache'[k].by = q
              /\ \A j \in Keys \ {k} : cache'[j] = cache[j]]_vars

\* C15's case: two reads of vehicle 1 overlapped an update of its plate; the
\* one that loaded the updated plate cached it, and then the one that had
\* loaded the plate from before the update made its set: the cache holds the
\* pre-update plate, the store the updated one.
C15_Witness ==
    \E s \in Slots :
        /\ patched[1].on /\ patched[1].fresh
        /\ vehicles[1] = patched[1].new
        /\ req[s].pc = "done" /\ IsVehicleById(req[s].q) /\ req[s].src = "service"
        /\ cache[VehicleIdKey(1)].kind = "entry"
        /\ cache[VehicleIdKey(1)].by = req[s].q
        /\ cache[VehicleIdKey(1)].val = Stringify(req[s].val)
        /\ PlateOf(req[s].val) = patched[1].old
        /\ now < patched[1].exp

\* C16: each read request performs at most one cache get, at most one service
\* invocation and at most one cache set, in that order and with no retry (its
\* handler only moves forward: get, then the service call, then set, then the
\* return); no request waits for another (whatever the other requests are
\* doing, its pending collaborator call can return), so concurrent requests
\* for one key that all miss each invoke the service.
C16_OneCallEachNoLock ==
    /\ [](\A s \in Slots :
            /\ req[s].pc = "get" => ENABLED CacheGet(s)
            /\ (req[s].pc = "load" /\ IsRead(req[s].q)) => ENABLED ServiceRead(s)
            /\ req[s].pc = "set" => ENABLED CacheSet(s))
    /\ [][\A s \in Slots :
            (req'[s] # req[s] /\ IsRead(req[s].q) /\ req[s].pc \notin {"idle", "done"})
            => /\ req'[s].q = req[s].q
               /\ req[s].pc = "get" => req'[s].pc \in {"load", "done"}
               /\ req[s].pc = "load" => req'[s].pc \in {"set", "done"}
               /\ req[s].pc = "set" => req'[s].pc = "done"
               /\ req'[s].pc = "load" => req'[s].val = NoVal
               /\ req'[s].pc = "set" => req'[s].src = "service"]_vars

\* C16's case: every slot holds a cache-eligible request for the key of vehicle
\* 1 that missed and has its own result from the service, not yet written: as
\* many service invocations as concurrent misses.
C16_Witness ==
    \A s \in Slots :
        /\ req[s].pc = "set" /\ IsVehicleById(req[s].q) /\ req[s].q.id = 1
        /\ CacheEligible(req[s].q.hdr)
        /\ req[s].src = "service"
        /\ cache[VehicleIdKey(1)].kind = "none"

\* C17: when the service call of a read request fails (the service throws
\* access-denied or not-found), the request returns that failure, performs no
\* cache write and leaves the cache exactly as it was; no entry holds an error
\* outcome, and a cache hit never returns an error.
C17_FailedReadWritesNothing ==
    /\ [](\A k \in Keys :
            (cache[k].kind = "entry" /\ Parses(cache[k].val))
            => Parse(cache[k].val).shape # "none")
    /\ [][\A s \in Slots :
            LET q == req[s].q
            IN /\ (/\ req[s].pc = "load" /\ IsRead(q) /\ req'[s] # req[s]
                   /\ ReadResult(q).out # "ok")
                  => /\ req'[s].pc = "done"
                     /\ req'[s].out = ReadResult(q).out
                     /\ req'[s].val = NoVal
                     /\ cache' = cache
               /\ Hit(s) => req'[s].out = "ok" /\ req'[s].val.shape # "none"]_vars

\* C17's case: a get-by-id of a deleted section went to the service and ended
\* in not-found, and the entry written before the delete is still under the
\* key, untouched.
C17_Witness ==
    \E s \in Slots :
        /\ req[s].pc = "done" /\ req[s].q.res = "sections" /\ req[s].q.act = "getById"
        /\ req[s].out = "NotFound" /\ req[s].src = "service"
        /\ cache[KeyOf(req[s].q)].kind = "entry"
        /\ now < cache[KeyOf(req[s].q)].exp
        /\ Parse(cache[KeyOf(req[s].q)].val).shape = "one"

\* C18: a get-by-id request for an id that is not in the store when the
\* request is made never returns a record: after a successful delete of the
\* vehicle, every get-by-id of it ends in not-found, cache-eligible or not.
C18_DeletedIsNotFound ==
    [][\A s \in Slots :
        LET q == req'[s].q
        IN (/\ Completes(s) /\ req[s].pc \in {"get", "load"}
            /\ IsVehicleById(q) /\ Admitted(q)
            /\ vehicles[q.id] = Absent)
           => req'[s].out = "NotFound" /\ req'[s].val = NoVal]_vars

\* The integers the keys are compared over: pages and limits, and ids, which
\* include every number whose digits are a page's followed by a limit's.
MaxKeyPage == 12
MaxKeyId == 130
KeyPages == (0 - 2)..MaxKeyPage
KeyIds == (0 - MaxKeyId)..MaxKeyId

\* No two of the four cached routes build the same key.
KeysDisjoint ==
    /\ \A p \in KeyPages, l \in KeyPages, i \in KeyIds :
            /\ VehicleListKey(p, l) # VehicleIdKey(i)
            /\ VehicleListKey(p, l) # SectionIdKey(i)
    /\ \A p \in KeyPages, l \in KeyPages : VehicleListKey(p, l) # SectionListKey
    /\ \A i \in KeyIds, j \in KeyIds : VehicleIdKey(i) # SectionIdKey(j)
    /\ \A i \in KeyIds :
            /\ VehicleIdKey(i) # SectionListKey
            /\ SectionIdKey(i) # SectionListKey

\* The shape of the payload of a cached route.
ShapeOf(q) == IF q.act = "getAll" THEN "many" ELSE "one"

\* C19: the keys of the four cached routes are pairwise disjoint for all
\* integer ids, pages and limits, and the payload a route returns from the
\* cache was written by that same route: a by-id request never receives a list
\* and a list request never receives a single record or the other resource's
\* data.
C19_KeysDisjoint ==
    /\ []KeysDisjoint
    /\ [][\A s \in Slots :
            LET q == req[s].q
                by == cache[KeyOf(q)].by
            IN Hit(s) => /\ by.res = q.res /\ by.act = q.act
                         /\ by.id = q.id /\ by.page = q.page /\ by.limit = q.limit
                         /\ req'[s].val.shape = ShapeOf(q)]_vars

\* C19's case: with page 1, limit 2 of the vehicle list cached under
\* `vehicles:1:2`, and vehicle 1 and the section list cached too, a
\* cache-eligible get-by-id of vehicle 12 found nothing under `vehicles:12`
\* and was answered by the service.
C19_Witness ==
    \E s \in Slots :
        /\ req[s].pc = "done" /\ IsVehicleById(req[s].q) /\ req[s].q.id = 12
        /\ CacheEligible(req[s].q.hdr)
        /\ req[s].out = "NotFound" /\ req[s].src = "service"
        /\ cache[VehicleListKey(1, 2)].kind = "entry"
        /\ cache[VehicleIdKey(1)].kind = "entry"
        /\ cache[SectionListKey].kind = "entry"

=============================================================================
